---- MODULE Spec2Model ----
(***************************************************************************)
(* A model of busybeaver.py: the Tape, the TuringMachine / BusyBeaver      *)
(* interpreter, the enumeration of transition tables, the sigma() search   *)
(* and the file-backed, resumable Generator.                               *)
(*                                                                         *)
(* The specifications of the module:                                       *)
(*   SpecTape        sequences of Tape operations                          *)
(*   SpecRun         run(budget) of one machine, one step() at a time      *)
(*   SpecRunFair     the same under weak fairness, for termination         *)
(*   SpecEnum        a consumer draining enum_transitions(states)          *)
(*   SpecSigma       sigma(states)                                         *)
(*   SpecGen         Generator.__init__ / run / _save with process deaths  *)
(*                   and restarts                                          *)
(*   SpecGenCorrupt  the same, started on an absent or unreadable file     *)
(* Each leaves the other components' variables at their idle values.       *)
(***************************************************************************)
EXTENDS Integers, Sequences, FiniteSets, TLC

VARIABLES
    tape,           \* SpecTape: the Tape object
    last,           \* SpecTape: history - the last operation, the tape before it, its result
    nops,           \* SpecTape: history - number of operations applied
    moved,          \* SpecTape: history - sum of |new position - old position|
    written,        \* SpecTape: history - position -> the value of the latest write() made there
    machine,        \* SpecRun: the BusyBeaver that run() is stepping
    budget,         \* SpecRun: the steps argument of run()
    attempts,       \* SpecRun: the number of step() calls made by run()
    applied,        \* SpecRun: history - the number of transitions applied
    before,         \* SpecRun: history - the machine before the last step() call
    states,         \* the state count n handed to enum_transitions / sigma / Generator
    it,             \* the itertools.product iterator inside enum_transitions
    num,            \* the enumerate(..., 1) counter (num in sigma, no in Generator.run)
    trans,          \* the table most recently yielded by enum_transitions
    pc,             \* position of the running function
    champion,       \* SpecSigma: sigma's champion
    champion_ones,  \* SpecSigma: sigma's champion_ones
    candidate,      \* SpecSigma: the candidate of the last loop iteration
    seen,           \* SpecSigma: history - score -> ordinal and table of the first halting candidate with it
    gen,            \* SpecGen: the Generator object (states, maxsteps, results)
    maxsteps,       \* SpecGen: the maxsteps argument of Generator(...)
    made,           \* SpecGen: Generator.run's made
    save_every,     \* SpecGen: Generator.run's save_every
    disk,           \* SpecGen: the checkpoint file and the temporary file
    hist            \* SpecGen: history - what the last restart loaded, the last simulated ordinal, the last _save

vars == <<tape, last, nops, moved, written, machine, budget, attempts, applied, before, states, it, num, trans, pc, champion,
          champion_ones, candidate, seen, gen, maxsteps, made, save_every, disk, hist>>

tapeVars == <<tape, last, nops, moved, written>>
runVars == <<machine, budget, attempts, applied, before>>
enumVars == <<states, it, num, trans>>
sigmaVars == <<champion, champion_ones, candidate, seen>>
genVars == <<gen, maxsteps, made, save_every, disk, hist>>

----------------------------------------------------------------------------
(* Bounds of the model *)

\* Tape positions explored by SpecTape lie in -MaxPos..MaxPos
MaxPos == 2
\* number of Tape operations in one SpecTape behaviour
MaxOps == 4
\* Generator's maxsteps ranges over 0..MaxSteps
MaxSteps == 1
\* Generator.run's save_every ranges over 1..MaxSaveEvery
MaxSaveEvery == 2
\* the steps argument of run() in SpecRun ranges over 0..MaxBudget
MaxBudget == 4

\* State counts of the enumeration and of sigma.  The table space has
\* (4(n+1))^(2n) members: 1, 64, 20736, 16777216, ...
EnumStates == {0, 1, 2}
\* State counts of the Generator runs.
GenStates == {0, 1}
\* States of the tables run by SpecRun: (13)^4 = 28561 tables, complete or not
TableStates == {0, 1}

----------------------------------------------------------------------------
(* Program constants *)

\* the halt state "Z" of enum_instructions
Z == -1
\* candidate.run(107+1) in sigma
SigmaSteps == 108

SymbolList == <<0, 1>>
MoveList == <<-1, 1>>
\* values written to a Tape, and the default values of its default_factory
Symbols == {0, 1}
Defaults == {0, 1}
None == "None"

Min(a, b) == IF a < b THEN a ELSE b
Max(a, b) == IF a > b THEN a ELSE b
Abs(x) == IF x < 0 THEN -x ELSE x

----------------------------------------------------------------------------
(* class Tape *)

\* Tape.__init__
Tape(position, default) ==
    [data |-> <<>>, position |-> position,
     leftmost |-> Min(0, position), rightmost |-> Max(0, position),
     shifts |-> 0, default |-> default]

\* mutant: the extremes follow the head instead of accumulating
UpdateExtremesForgetful(t) ==
    [t EXCEPT !.leftmost = Min(0, t.position),
              !.rightmost = Max(0, t.position)]

\* Tape._update_extremes
UpdateExtremes(t) ==
    [t EXCEPT !.leftmost = Min(t.leftmost, t.position),
              !.rightmost = Max(t.rightmost, t.position)]

\* mutant: the signed difference is added
SetPositionSigned(t, value) ==
    UpdateExtremes([t EXCEPT !.shifts = t.shifts + (t.position - value),
                             !.position = value])

\* the position setter
SetPosition(t, value) ==
    UpdateExtremes([t EXCEPT !.shifts = t.shifts + Abs(t.position - value),
                             !.position = value])

\* mutant: a plain lookup with a fallback, which stores nothing
GetItemNoInsert(t, key) == t

\* defaultdict.__getitem__: a missing key is inserted with the default
GetItem(t, key) ==
    IF key \in DOMAIN t.data THEN t
    ELSE [t EXCEPT !.data = (key :> t.default) @@ t.data]

\* mutant: a read counts as a shift
ReadTapeCounts(t) == [GetItem(t, t.position) EXCEPT !.shifts = @ + 1]

\* Tape.read: the tape after the call
ReadTape(t) == GetItem(t, t.position)

\* Tape.read: the value returned
Read(t) == IF t.position \in DOMAIN t.data THEN t.data[t.position] ELSE t.default

\* mutant: dict.setdefault - a stored cell keeps its value
WriteSetDefault(t, value) ==
    [t EXCEPT !.data = IF t.position \in DOMAIN t.data
                       THEN t.data
                       ELSE (t.position :> value) @@ t.data]

\* Tape.write
Write(t, value) ==
    [t EXCEPT !.data = IF t.position \in DOMAIN t.data
                       THEN [t.data EXCEPT ![t.position] = value]
                       ELSE (t.position :> value) @@ t.data]

\* Tape.left
Left(t) == SetPosition(t, t.position - 1)

\* Tape.right
Right(t) == SetPosition(t, t.position + 1)

\* sorted(self.data.keys())
RECURSIVE Sorted(_)
Sorted(S) ==
    IF S = {} THEN <<>>
    ELSE LET m == CHOOSE x \in S : \A y \in S : x <= y
         IN <<m>> \o Sorted(S \ {m})

\* Tape.values
Values(t) ==
    LET keys == Sorted(DOMAIN t.data)
    IN [i \in 1..Len(keys) |-> t.data[keys[i]]]

----------------------------------------------------------------------------
(* SpecTape: sequences of Tape operations *)

enumIdle ==
    /\ states = 0 /\ it = None /\ num = 0 /\ trans = <<>>
sigmaIdle ==
    /\ champion = None /\ champion_ones = 0 /\ candidate = None /\ seen = <<>>
genIdle ==
    /\ gen = None /\ maxsteps = 0 /\ made = 0 /\ save_every = 0 /\ disk = None /\ hist = None
tapeIdle ==
    /\ tape = None /\ last = None /\ nops = 0 /\ moved = 0 /\ written = <<>>
runIdle ==
    /\ machine = None /\ budget = 0 /\ attempts = 0 /\ applied = 0 /\ before = None

InitTape ==
    /\ \E p \in -MaxPos..MaxPos, d \in Defaults :
          /\ tape = Tape(p, d)
          /\ last = [op |-> "init", arg |-> p, before |-> Tape(p, d), ret |-> 0]
    /\ nops = 0
    /\ moved = 0
    /\ written = <<>>
    /\ pc = "tape"
    /\ runIdle /\ enumIdle /\ sigmaIdle /\ genIdle

\* one operation: the tape after it, and the history
Applied(op, arg, t, ret) ==
    /\ nops < MaxOps
    /\ t.position \in -MaxPos..MaxPos
    /\ tape' = t
    /\ last' = [op |-> op, arg |-> arg, before |-> tape, ret |-> ret]
    /\ nops' = nops + 1
    /\ moved' = moved + Abs(t.position - tape.position)
    /\ written' = IF op = "write" THEN (tape.position :> arg) @@ written ELSE written
    /\ UNCHANGED <<pc, runVars, enumVars, sigmaVars, genVars>>

DoRead == Applied("read", 0, ReadTape(tape), Read(tape))

DoWrite == \E v \in Symbols : Applied("write", v, Write(tape, v), 0)

DoLeft == Applied("left", 0, Left(tape), 0)

DoRight == Applied("right", 0, Right(tape), 0)

DoSetPosition == \E p \in -MaxPos..MaxPos : Applied("position", p, SetPosition(tape, p), 0)

NextTape == DoRead \/ DoWrite \/ DoLeft \/ DoRight \/ DoSetPosition

SpecTape == InitTape /\ [][NextTape]_vars

(* C8: after construction at any start position and after every Tape
   operation, leftmost <= position <= rightmost and leftmost <= 0 <= rightmost;
   no operation increases leftmost or decreases rightmost. *)
C8_Extremes ==
    pc = "tape" =>
        /\ tape.leftmost <= tape.position /\ tape.position <= tape.rightmost
        /\ tape.leftmost <= 0 /\ 0 <= tape.rightmost
        /\ tape.leftmost <= last.before.leftmost
        /\ tape.rightmost >= last.before.rightmost

\* the head was assigned a position strictly inside extremes reached on both sides of 0
C8_Witness ==
    /\ pc = "tape" /\ last.op = "position"
    /\ tape.leftmost < tape.position /\ tape.position < tape.rightmost
    /\ tape.leftmost < 0 /\ 0 < tape.rightmost

(* C9: shifts is 0 after construction whatever the start position, never
   decreases, and always equals the sum of |new position - old position| over
   the operations applied: left and right add exactly 1, an assignment of p
   to position adds exactly |p - position|, read and write add nothing. *)
C9_Shifts ==
    pc = "tape" =>
        /\ tape.shifts = moved
        /\ tape.shifts >= last.before.shifts
        /\ last.op = "init" => tape.shifts = 0
        /\ last.op \in {"left", "right"} => tape.shifts = last.before.shifts + 1
        /\ last.op = "position" =>
              tape.shifts = last.before.shifts + Abs(last.arg - last.before.position)
        /\ last.op \in {"read", "write"} => tape.shifts = last.before.shifts

\* a direct assignment jumped at least two cells to the left after earlier movement
C9_Witness ==
    /\ pc = "tape" /\ last.op = "position"
    /\ last.arg < last.before.position - 1
    /\ last.before.shifts > 0
    /\ tape.shifts = last.before.shifts + (last.before.position - last.arg)

(* C10 as stated: a cell is stored only once it is written, so a read leaves
   the stored cells as they were. *)
C10_ReadStoresNothing ==
    (pc = "tape" /\ last.op = "read") =>
        /\ tape.data = last.before.data
        /\ last.before.position \notin DOMAIN last.before.data => last.ret = tape.default

(* C10 amended: a cell is stored when it is first read or written, never by
   head movement: reading a cell that is not stored returns the default value
   and stores exactly that cell, holding the default; reading a stored cell
   returns its value and stores nothing; a write stores exactly the cell under
   the head; left, right and position assignment leave the stored cells as
   they were; a new tape stores no cell. *)
C10_ReadMaterializes ==
    pc = "tape" =>
        LET b == last.before
            p == b.position
        IN /\ (last.op = "read" /\ p \notin DOMAIN b.data) =>
                 /\ last.ret = b.default
                 /\ DOMAIN tape.data = DOMAIN b.data \cup {p}
                 /\ tape.data[p] = b.default
                 /\ \A k \in DOMAIN b.data : tape.data[k] = b.data[k]
           /\ (last.op = "read" /\ p \in DOMAIN b.data) =>
                 /\ last.ret = b.data[p]
                 /\ tape.data = b.data
           /\ last.op = "write" => DOMAIN tape.data = DOMAIN b.data \cup {p}
           /\ last.op \in {"left", "right", "position"} => tape.data = b.data
           /\ last.op = "init" => DOMAIN tape.data = {}

\* a read of a cell that was never written has added it to values()
C10_Witness ==
    /\ pc = "tape" /\ last.op = "read"
    /\ last.before.position \notin DOMAIN last.before.data
    /\ last.before.position /= 0
    /\ Len(Values(tape)) = Len(Values(last.before)) + 1
    /\ last.ret = tape.default

\* what read() would return with the head at position p
CellValue(t, p) == IF p \in DOMAIN t.data THEN t.data[p] ELSE t.default

\* the value of the latest write() at position p, the default if there was none
LatestWrite(p) == IF p \in DOMAIN written THEN written[p] ELSE tape.default

(* C11: read() returns the value most recently written at the head position,
   or the default value if that cell was never written; a write changes the
   value of the cell under the head only, and head movements and reads change
   the value of no cell; read and write leave position, shifts, leftmost and
   rightmost unchanged. *)
C11_ReadLatestWrite ==
    pc = "tape" =>
        LET b == last.before
        IN /\ \A p \in (-MaxPos - 1)..(MaxPos + 1) : CellValue(tape, p) = LatestWrite(p)
           /\ last.op = "read" => last.ret = LatestWrite(b.position)
           /\ last.op = "write" =>
                 /\ CellValue(tape, b.position) = last.arg
                 /\ \A p \in (-MaxPos - 1)..(MaxPos + 1) :
                       p /= b.position => CellValue(tape, p) = CellValue(b, p)
           /\ last.op \in {"read", "left", "right", "position"} =>
                 \A p \in (-MaxPos - 1)..(MaxPos + 1) : CellValue(tape, p) = CellValue(b, p)
           /\ last.op \in {"read", "write"} =>
                 /\ tape.position = b.position /\ tape.shifts = b.shifts
                 /\ tape.leftmost = b.leftmost /\ tape.rightmost = b.rightmost

\* the head left a cell it had written, came back, and read the written value
C11_Witness ==
    /\ pc = "tape" /\ last.op = "read"
    /\ last.before.position \in DOMAIN written
    /\ last.ret = written[last.before.position]
    /\ last.ret /= tape.default
    /\ tape.shifts >= 2
    /\ nops >= 4

----------------------------------------------------------------------------
(* class TuringMachine, class BusyBeaver *)

\* TuringMachine.__init__
TuringMachine(state, transition) ==
    [state |-> state, tape |-> Tape(0, 0), transition |-> transition]

\* BusyBeaver.__init__
BusyBeaver(transition) ==
    [state |-> 0, tape |-> Tape(0, 0), transition |-> transition, halts |-> None]

\* mutant: the head moves before the symbol is written
StepMovesBeforeWrite(m) ==
    LET symbol == Read(m.tape)
        t1 == ReadTape(m.tape)
        key == <<m.state, symbol>>
    IN IF key \notin DOMAIN m.transition
       THEN [raised |-> TRUE, m |-> [m EXCEPT !.tape = t1]]
       ELSE LET ins == m.transition[key]
                t2 == SetPosition(t1, t1.position + ins[2])
                t3 == Write(t2, ins[1])
            IN [raised |-> FALSE, m |-> [m EXCEPT !.tape = t3, !.state = ins[3]]]

\* mutant: an instruction whose next state is the halt state raises the
\* KeyError at once and is not applied
StepRaisesOnEnteringHalt(m) ==
    LET symbol == Read(m.tape)
        t1 == ReadTape(m.tape)
        key == <<m.state, symbol>>
    IN IF key \notin DOMAIN m.transition \/ m.transition[key][3] = Z
       THEN [raised |-> TRUE, m |-> [m EXCEPT !.tape = t1]]
       ELSE LET ins == m.transition[key]
                t2 == Write(t1, ins[1])
                t3 == SetPosition(t2, t2.position + ins[2])
            IN [raised |-> FALSE, m |-> [m EXCEPT !.tape = t3, !.state = ins[3]]]

\* mutant: a missing entry is replaced by an instruction that keeps the symbol
\* and the head and enters the halt state before the KeyError is raised
StepHaltSetsState(m) ==
    LET symbol == Read(m.tape)
        t1 == ReadTape(m.tape)
        key == <<m.state, symbol>>
    IN IF key \notin DOMAIN m.transition
       THEN [raised |-> TRUE, m |-> [m EXCEPT !.tape = t1, !.state = Z]]
       ELSE LET ins == m.transition[key]
                t2 == Write(t1, ins[1])
                t3 == SetPosition(t2, t2.position + ins[2])
            IN [raised |-> FALSE, m |-> [m EXCEPT !.tape = t3, !.state = ins[3]]]

\* TuringMachine.step: raised is the KeyError of the table lookup; the read
\* before it has already gone through the defaultdict
Step(m) ==
    LET symbol == Read(m.tape)
        t1 == ReadTape(m.tape)
        key == <<m.state, symbol>>
    IN IF key \notin DOMAIN m.transition
       THEN [raised |-> TRUE, m |-> [m EXCEPT !.tape = t1]]
       ELSE LET ins == m.transition[key]
                t2 == Write(t1, ins[1])
                t3 == SetPosition(t2, t2.position + ins[2])
            IN [raised |-> FALSE, m |-> [m EXCEPT !.tape = t3, !.state = ins[3]]]

\* for n in range(steps): self.step(), from the outcome r of the steps made so
\* far; a KeyError ends the loop.  The steps are made in order, split in two
\* halves so that the evaluation nests to depth log2(steps)
RECURSIVE RunFrom(_, _)
RunFrom(r, steps) ==
    IF r.raised \/ steps <= 0 THEN r
    ELSE IF steps = 1 THEN Step(r.m)
    ELSE RunFrom(RunFrom(r, steps \div 2), steps - (steps \div 2))

\* TuringMachine.run with a number of steps
Run(m, steps) == RunFrom([raised |-> FALSE, m |-> m], steps)

\* sum(...)
RECURSIVE Sum(_)
Sum(seq) == IF seq = <<>> THEN 0 ELSE Head(seq) + Sum(Tail(seq))

\* mutant: every stored cell counts
OnesCountsCells(m) == Len(Values(m.tape))

\* BusyBeaver.ones
Ones(m) == Sum(Values(m.tape))

\* mutant: the base argument of int is left out
RECURSIVE IntBase10(_)
IntBase10(digits) ==
    IF digits = <<>> THEN 0
    ELSE 10 * IntBase10(SubSeq(digits, 1, Len(digits) - 1)) + digits[Len(digits)]

\* the value of a string of binary digits, most significant first
RECURSIVE IntBase2(_)
IntBase2(digits) ==
    IF digits = <<>> THEN 0
    ELSE 2 * IntBase2(SubSeq(digits, 1, Len(digits) - 1)) + digits[Len(digits)]

\* int("", 2) raises ValueError; the values of int(s, 2) are never negative
ValueError == -1

\* int("".join(map(str, values)), 2)
Int2(digits) == IF digits = <<>> THEN ValueError ELSE IntBase2(digits)

\* BusyBeaver.coded_ones
CodedOnes(m) == Int2(Values(m.tape))

\* the try / except KeyError around candidate.run in sigma and Generator.run
RunCandidate(transition, steps) ==
    LET r == Run(BusyBeaver(transition), steps)
    IN [r.m EXCEPT !.halts = IF r.raised THEN "True" ELSE "False"]

----------------------------------------------------------------------------
(* SpecRun: candidate.run(budget) inside try / except KeyError, one step() call
   at a time, for every transition dict over TableStates, complete or not *)

\* the (state, symbol) keys and the instructions of tables over the states S
Keys(S) == S \X Symbols
Instructions(S) == Symbols \X {-1, 1} \X (S \cup {Z})

\* every dict from some of the keys to instructions
Tables(S) == UNION {[K -> Instructions(S)] : K \in SUBSET Keys(S)}

InitRun ==
    /\ \E table \in Tables(TableStates) :
          /\ machine = BusyBeaver(table)
          /\ before = BusyBeaver(table)
    /\ budget \in 0..MaxBudget
    /\ attempts = 0
    /\ applied = 0
    /\ pc = "run"
    /\ tapeIdle /\ enumIdle /\ sigmaIdle /\ genIdle

\* mutant: the loop makes one pass more than steps
RunStepOneMore ==
    /\ pc = "run"
    /\ attempts <= budget
    /\ LET r == Step(machine)
       IN /\ machine' = IF r.raised THEN [r.m EXCEPT !.halts = "True"] ELSE r.m
          /\ pc' = IF r.raised THEN "halted" ELSE "run"
          /\ applied' = IF r.raised THEN applied ELSE applied + 1
    /\ before' = machine
    /\ attempts' = attempts + 1
    /\ UNCHANGED <<budget, tapeVars, enumVars, sigmaVars, genVars>>

\* one pass of for n in range(steps): self.step(); a KeyError leaves run and
\* is caught by the caller, which sets halts = True
RunStep ==
    /\ pc = "run"
    /\ attempts < budget
    /\ LET r == Step(machine)
       IN /\ machine' = IF r.raised THEN [r.m EXCEPT !.halts = "True"] ELSE r.m
          /\ pc' = IF r.raised THEN "halted" ELSE "run"
          /\ applied' = IF r.raised THEN applied ELSE applied + 1
    /\ before' = machine
    /\ attempts' = attempts + 1
    /\ UNCHANGED <<budget, tapeVars, enumVars, sigmaVars, genVars>>

\* range(steps) is used up: run returns and the caller sets halts = False
RunReturn ==
    /\ pc = "run"
    /\ attempts >= budget
    /\ machine' = [machine EXCEPT !.halts = "False"]
    /\ pc' = "returned"
    /\ UNCHANGED <<budget, attempts, applied, before, tapeVars, enumVars, sigmaVars, genVars>>

NextRun == RunStep \/ RunReturn

SpecRun == InitRun /\ [][NextRun]_vars

\* The tables of the runs checked for termination: every dict over one state,
\* and the dicts over TableStates whose instructions all write 1
FairTables ==
    Tables({0}) \cup {t \in Tables(TableStates) : \A k \in DOMAIN t : t[k][1] = 1}

InitRunFair ==
    /\ \E table \in FairTables :
          /\ machine = BusyBeaver(table)
          /\ before = BusyBeaver(table)
    /\ budget \in 0..MaxBudget
    /\ attempts = 0
    /\ applied = 0
    /\ pc = "run"
    /\ tapeIdle /\ enumIdle /\ sigmaIdle /\ genIdle

\* the interpreter keeps running: nothing blocks a pass of the loop or the return
SpecRunFair == InitRunFair /\ [][NextRun]_vars /\ WF_vars(NextRun)

(* C12 as stated: when step() finds no transition it raises KeyError and
   the machine state, the head position, shifts, leftmost, rightmost and the
   tape contents are exactly what they were before the call. *)
C12_HaltChangesNothing ==
    pc = "halted" =>
        /\ machine.state = before.state
        /\ machine.tape = before.tape

(* C12 amended: when step() finds no transition it raises KeyError and the
   machine state, the head position, shifts, leftmost, rightmost and the value
   of every cell are what they were before the call; the cell under the head,
   if it was not stored yet, is now stored holding the default value 0, and
   the stored cells are otherwise the same. *)
C12_HaltStoresCell ==
    pc = "halted" =>
        LET t == machine.tape
            b == before.tape
        IN /\ <<before.state, CellValue(b, b.position)>> \notin DOMAIN before.transition
           /\ machine.state = before.state
           /\ machine.transition = before.transition
           /\ t.position = b.position /\ t.shifts = b.shifts
           /\ t.leftmost = b.leftmost /\ t.rightmost = b.rightmost
           /\ \A p \in (b.leftmost - 1)..(b.rightmost + 1) : CellValue(t, p) = CellValue(b, p)
           /\ DOMAIN t.data = DOMAIN b.data \cup {b.position}
           /\ b.position \notin DOMAIN b.data => t.data[b.position] = 0

\* the lookup failed with the head on a cell that no step had read or written
C12_Witness ==
    /\ pc = "halted"
    /\ applied >= 1
    /\ before.tape.position \notin DOMAIN before.tape.data
    /\ Len(Values(machine.tape)) = Len(Values(before.tape)) + 1

\* the table that defines only (state 0, symbol 0) -> (write 1, move right, next HALT)
HaltAtOnce == <<0, 0>> :> <<1, 1, Z>>

(* C13: the machine whose table defines only (0, 0) -> (1, right, HALT), run
   from state 0 on a blank tape with any budget of at least 2, is classified
   as halted after exactly 1 applied step (shifts = 1) with ones() = 1. *)
C13_HaltAtOnce ==
    (pc \in {"run", "halted", "returned"} /\ machine.transition = HaltAtOnce /\ budget >= 2) =>
        /\ pc /= "returned"
        /\ pc = "run" => attempts < 2
        /\ pc = "halted" =>
              /\ machine.halts = "True"
              /\ applied = 1
              /\ attempts = 2
              /\ machine.tape.shifts = 1
              /\ Ones(machine) = 1

\* that machine has halted under the largest budget
C13_Witness ==
    /\ pc = "halted" /\ machine.transition = HaltAtOnce
    /\ budget = MaxBudget
    /\ machine.state = Z
    /\ machine.tape.position = 1

(* C17: when a transition (w, m, s) is defined for the current (state,
   symbol), step() writes w into the cell at the head position held before
   the move, then changes the position by exactly m, sets the machine state
   to s, and leaves every other cell unchanged. *)
C17_StepApplies ==
    (pc \in {"run", "returned"} /\ attempts >= 1) =>
        LET b == before.tape
            t == machine.tape
            key == <<before.state, CellValue(b, b.position)>>
        IN /\ key \in DOMAIN before.transition
           /\ CellValue(t, b.position) = before.transition[key][1]
           /\ b.position \in DOMAIN t.data
           /\ t.position = b.position + before.transition[key][2]
           /\ t.position - b.position \in {-1, 1}
           /\ machine.state = before.transition[key][3]
           /\ \A p \in (b.leftmost - 2)..(b.rightmost + 2) :
                 p /= b.position =>
                    /\ CellValue(t, p) = CellValue(b, p)
                    /\ (p \in DOMAIN t.data) = (p \in DOMAIN b.data)
           /\ machine.transition = before.transition

\* a step read a 1 it had written earlier, wrote 0 over it, moved left and changed state
C17_Witness ==
    /\ pc = "run" /\ attempts >= 3
    /\ CellValue(before.tape, before.tape.position) = 1
    /\ CellValue(machine.tape, before.tape.position) = 0
    /\ machine.tape.position = before.tape.position - 1
    /\ machine.state /= before.state
    /\ Ones(machine) >= 1

\* the configuration of machine m has no transition
NoTransition(m) == <<m.state, CellValue(m.tape, m.tape.position)>> \notin DOMAIN m.transition

\* the outcome of run(budget) so far
RunOutcome ==
    pc \in {"run", "halted", "returned"} =>
        /\ attempts <= budget /\ applied <= budget
        /\ pc = "run" => (machine.halts = None /\ applied = attempts)
        /\ pc = "halted" =>
              /\ machine.halts = "True"
              /\ NoTransition(before) /\ NoTransition(machine)
              /\ attempts = applied + 1
              /\ applied <= budget - 1
        /\ pc = "returned" =>
              /\ machine.halts = "False"
              /\ attempts = budget /\ applied = budget
              /\ budget >= 1 => ~NoTransition(before)

(* C18: run(B) always terminates after applying at most B transitions, in
   exactly one of two outcomes: KeyError, the candidate being classified
   halts = True, iff a lookup fails within the first B step() calls, that is
   after at most B-1 applied transitions; otherwise a normal return after B
   applied transitions, the candidate being classified halts = False - also
   when the B-th applied transition entered the HALT state. *)
C18_RunTerminates ==
    /\ []RunOutcome
    /\ <>(pc \in {"halted", "returned"})
    /\ [][(pc \in {"halted", "returned"}) => (pc' = pc)]_vars

\* run returned with the budget used up by the transition that entered HALT
C18_Witness ==
    /\ pc = "returned"
    /\ machine.state = Z /\ before.state /= Z
    /\ NoTransition(machine)
    /\ applied = budget /\ budget >= 2
    /\ machine.halts = "False"

(* C20: at every point in the run of a machine started on a fresh tape with
   a table whose moves are all -1 or +1, tape.shifts equals the number of
   transitions applied so far and rightmost - leftmost <= shifts; for a
   halted candidate shifts therefore includes the transition that entered
   HALT and excludes the failed lookup that signalled the halt. *)
C20_ShiftsCountSteps ==
    pc \in {"run", "halted", "returned"} =>
        /\ machine.tape.shifts = applied
        /\ machine.tape.rightmost - machine.tape.leftmost <= machine.tape.shifts
        /\ pc = "halted" => machine.tape.shifts = attempts - 1
        /\ pc \in {"run", "returned"} => machine.tape.shifts = attempts
        /\ (pc = "halted" /\ machine.state = Z /\ before.state = Z /\ attempts >= 2) =>
              machine.tape.shifts >= 1

\* a machine halted in HALT after turning back: the head covered less ground than it made shifts
C20_Witness ==
    /\ pc = "halted" /\ machine.state = Z
    /\ applied >= 3 /\ attempts = applied + 1
    /\ machine.tape.rightmost - machine.tape.leftmost < machine.tape.shifts
    /\ machine.tape.leftmost < 0 /\ machine.tape.rightmost > 0

----------------------------------------------------------------------------
(* The enumeration of transition tables *)

RECURSIVE Pow(_, _)
Pow(b, e) == IF e = 0 THEN 1 ELSE b * Pow(b, e - 1)

\* binary_machines
binary_machines(n) == Pow(4 * (n + 1), 2 * n)

\* mutant: the states are numbered from 1
ReversedStatesOneBased(n) == [i \in 1..(n + 1) |-> IF i <= n THEN n + 1 - i ELSE Z]

\* reversed(["Z"] + list(range(states)))
ReversedStates(n) == [i \in 1..(n + 1) |-> IF i <= n THEN n - i ELSE Z]

\* mutant: the loops are nested in the order of the yielded tuple - symbol
\* outside, move in the middle, state inside
enum_instructionsSymbolOuter(n) ==
    LET sts == ReversedStates(n)
    IN [j \in 1..(4 * Len(sts)) |->
          << SymbolList[((j - 1) \div (2 * Len(sts))) + 1],
             MoveList[(((j - 1) \div Len(sts)) % 2) + 1],
             sts[((j - 1) % Len(sts)) + 1] >>]

\* enum_instructions: state is the outer loop, symbol the middle one, move the
\* inner one
enum_instructions(n) ==
    LET sts == ReversedStates(n)
    IN [j \in 1..(4 * Len(sts)) |->
          << SymbolList[(((j - 1) \div 2) % 2) + 1],
             MoveList[((j - 1) % 2) + 1],
             sts[((j - 1) \div 4) + 1] >>]

\* itertools.product(pool, repeat=r) before its first next()
Product(r) == [indices |-> [k \in 1..r |-> 1], state |-> "fresh"]

\* the rightmost position of indices that is below base, 0 if there is none
Rightmost(indices, base) ==
    LET S == {k \in 1..Len(indices) : indices[k] < base}
    IN IF S = {} THEN 0 ELSE CHOOSE k \in S : \A j \in S : j <= k

\* next() of the product iterator: the rightmost element advances on every
\* call, and the iterator is exhausted after the last combination
ProductNext(p, base) ==
    IF p.state = "fresh"
    THEN IF base = 0 /\ Len(p.indices) > 0 THEN [p EXCEPT !.state = "exhausted"]
         ELSE [p EXCEPT !.state = "running"]
    ELSE LET k == Rightmost(p.indices, base)
         IN IF p.state = "exhausted" \/ k = 0 THEN [p EXCEPT !.state = "exhausted"]
            ELSE [p EXCEPT !.indices = [j \in 1..Len(p.indices) |->
                                          IF j < k THEN p.indices[j]
                                          ELSE IF j = k THEN p.indices[j] + 1
                                          ELSE 1]]

\* the tuple i of enum_transitions
ProductTuple(p, n) ==
    LET pool == enum_instructions(n)
    IN [k \in 1..Len(p.indices) |-> pool[p.indices[k]]]

\* mutant: the slot counter advances once per state instead of once per entry
BuildTransSlotPerState(i, n) ==
    IF Len(i) > n
    THEN [key \in (0..(n - 1)) \X {0, 1} |-> i[key[1] + 1]]
    ELSE <<>>

\* the body of enum_transitions' loop: the dict built from the tuple i
BuildTrans(i, n) ==
    IF Len(i) > n
    THEN [key \in (0..(n - 1)) \X {0, 1} |-> i[2 * key[1] + key[2] + 1]]
    ELSE <<>>

\* one next() of enum_transitions(states): the iterator and the table yielded
EnumAdvance ==
    LET p == ProductNext(it, Len(enum_instructions(states)))
    IN /\ p.state = "running"
       /\ it' = p
       /\ num' = num + 1
       /\ trans' = BuildTrans(ProductTuple(p, states), states)

\* StopIteration of enum_transitions(states)
EnumExhausted == ProductNext(it, Len(enum_instructions(states))).state = "exhausted"

InitEnumVars ==
    /\ it = Product(2 * states)
    /\ num = 0
    /\ trans = <<>>

----------------------------------------------------------------------------
(* SpecEnum: for num, tran in enumerate(enum_transitions(states), 1) *)

InitEnum ==
    /\ states \in EnumStates
    /\ InitEnumVars
    /\ pc = "enum"
    /\ tapeIdle /\ runIdle /\ sigmaIdle /\ genIdle

EnumYield ==
    /\ pc = "enum"
    /\ EnumAdvance
    /\ UNCHANGED <<states, pc, tapeVars, runVars, sigmaVars, genVars>>

EnumStop ==
    /\ pc = "enum"
    /\ EnumExhausted
    /\ pc' = "done"
    /\ UNCHANGED <<enumVars, tapeVars, runVars, sigmaVars, genVars>>

NextEnum == EnumYield \/ EnumStop

SpecEnum == InitEnum /\ [][NextEnum]_vars

\* position of an instruction in the pool of an n-state machine
PoolIndex(ins, n) ==
    LET pool == enum_instructions(n)
    IN CHOOSE j \in 1..Len(pool) : pool[j] = ins

\* the ordinal of a complete n-state table, read off the table alone: its 2n
\* instructions are the digits, (state 0, symbol 0) the most significant
RECURSIVE Digits(_, _, _)
Digits(table, n, slot) ==
    IF slot = 0 THEN 0
    ELSE (4 * (n + 1)) * Digits(table, n, slot - 1)
         + (PoolIndex(table[<<(slot - 1) \div 2, (slot - 1) % 2>>], n) - 1)

Ordinal(table, n) == 1 + Digits(table, n, 2 * n)

(* C1: enum_transitions(n) yields exactly (4(n+1))^(2n) = binary_machines(n)
   tables (one table, the empty one, for n = 0), and the table yielded at
   ordinal num is the only one with that ordinal: the ordinal can be read off
   the table alone, so two ordinals never share a table. *)
C1_Count ==
    pc \in {"enum", "done"} =>
        /\ num <= binary_machines(states)
        /\ pc = "done" => num = binary_machines(states)
        /\ num >= 1 =>
             /\ DOMAIN trans = (0..(states - 1)) \X {0, 1}
             /\ Ordinal(trans, states) = num
        /\ (states = 0 /\ pc = "done") => (num = 1 /\ DOMAIN trans = {})

\* the two-state enumeration was drained
C1_Witness ==
    /\ pc = "done" /\ states = 2 /\ num = 20736

\* The ordinal of a complete n-state table in the lexicographic order of the
\* product over its 2n slots, (state 0, symbol 0) the most significant, when
\* rank gives the place 0..4(n+1)-1 of each instruction in the per-slot order
RECURSIVE DigitsBy(_, _, _, _)
DigitsBy(table, n, rank, slot) ==
    IF slot = 0 THEN 0
    ELSE (4 * (n + 1)) * DigitsBy(table, n, rank, slot - 1)
         + rank[table[<<(slot - 1) \div 2, (slot - 1) % 2>>]]

OrdinalBy(table, n, rank) == 1 + DigitsBy(table, n, rank, 2 * n)

\* the one-to-one maps from S onto 0..Cardinality(S)-1
Rankings(S) ==
    {f \in [S -> 0..(Cardinality(S) - 1)] : \A x, y \in S : f[x] = f[y] => x = y}

\* Per-slot orders with the symbol to write outermost, the direction in the
\* middle and the next state innermost, HALT next to state 0; which symbol,
\* direction and state comes first is left open
SymbolOuterRanks(n) ==
    LET S == 0..(n - 1)
    IN { [ins \in Instructions(S) |->
             2 * (n + 1) * sy[ins[1]] + (n + 1) * mv[ins[2]] + st[ins[3]]] :
         sy \in Rankings(Symbols), mv \in Rankings({-1, 1}),
         st \in {f \in Rankings(S \cup {Z}) :
                   n >= 1 => (f[Z] - f[0]) \in {-1, 1}} }

\* The per-slot order with the next state outermost, from state n-1 down to
\* state 0 and then HALT, the symbol to write in the middle, 0 before 1, and
\* the direction innermost, left before right
StateOuterRank(n) ==
    [ins \in Instructions(0..(n - 1)) |->
        4 * (IF ins[3] = Z THEN n ELSE n - 1 - ins[3])
        + 2 * ins[1]
        + (IF ins[2] = -1 THEN 0 ELSE 1)]

(* C14 as stated: the table at ordinal num is the num-th table in the
   lexicographic order of the product over the 2n slots, for a per-slot order
   with symbol-to-write outermost, direction in the middle and next-state
   innermost, HALT adjacent to state 0. *)
C14_SymbolOuterOrder ==
    (pc \in {"enum", "done"} /\ num >= 1) =>
        \E rank \in SymbolOuterRanks(states) : OrdinalBy(trans, states, rank) = num

(* C14 amended: the table at ordinal num is the num-th table in the
   lexicographic order of the product over the 2n slots (state 0, symbol 0),
   (state 0, symbol 1), (state 1, symbol 0), ..., for the per-slot order with
   next-state outermost (state n-1 first, down to state 0, HALT last and so
   adjacent to state 0), symbol-to-write in the middle (0 before 1) and
   direction innermost (left before right). *)
C14_StateOuterOrder ==
    (pc \in {"enum", "done"} /\ num >= 1) =>
        OrdinalBy(trans, states, StateOuterRank(states)) = num

\* the last slot has run through all twelve instructions and the slot before it advanced
C14_Witness ==
    /\ pc = "enum" /\ states = 2 /\ num = 13
    /\ trans[<<1, 1>>] = <<0, -1, 1>>
    /\ trans[<<1, 0>>] = <<0, 1, 1>>
    /\ trans[<<0, 1>>] = <<0, -1, 1>>

(* C15: every table produced by enum_transitions(n) is complete and
   well-formed: its domain is exactly the 2n pairs (state, symbol) with state
   in 0..n-1 and symbol in {0, 1}, and every instruction has write symbol in
   {0, 1}, move in {-1, +1} and next state in 0..n-1 or HALT. *)
C15_WellFormed ==
    (pc \in {"enum", "done"} /\ num >= 1) =>
        /\ DOMAIN trans = (0..(states - 1)) \X {0, 1}
        /\ Cardinality(DOMAIN trans) = 2 * states
        /\ \A key \in DOMAIN trans :
              /\ Len(trans[key]) = 3
              /\ trans[key][1] \in {0, 1}
              /\ trans[key][2] \in {-1, 1}
              /\ trans[key][3] \in (0..(states - 1)) \cup {Z}

\* a two-state table that uses HALT, the highest state, both symbols and both directions
C15_Witness ==
    /\ pc = "enum" /\ states = 2 /\ num >= 1
    /\ trans[<<0, 0>>] = <<1, 1, 1>>
    /\ trans[<<1, 1>>] = <<0, -1, Z>>

----------------------------------------------------------------------------
(* SpecSigma: sigma(states) *)

\* mutant: a tie replaces the champion
BetterOrEqual(ones, best) == ones >= best

\* if candidate.ones() > champion_ones
Better(ones, best) == ones > best

InitSigma ==
    /\ states \in EnumStates
    /\ InitEnumVars
    /\ champion = BusyBeaver(<<>>)
    /\ champion_ones = Ones(BusyBeaver(<<>>))
    /\ candidate = None
    /\ seen = <<>>
    /\ pc = "sigma"
    /\ tapeIdle /\ runIdle /\ genIdle

\* one iteration of sigma's loop
SigmaIter ==
    /\ pc = "sigma"
    /\ EnumAdvance
    /\ candidate' = RunCandidate(trans', SigmaSteps)
    /\ LET replace == candidate'.halts = "True" /\ Better(Ones(candidate'), champion_ones)
       IN /\ champion' = IF replace THEN candidate' ELSE champion
          /\ champion_ones' = IF replace THEN Ones(candidate') ELSE champion_ones
    /\ seen' = IF candidate'.halts = "True" /\ Ones(candidate') \notin DOMAIN seen
               THEN (Ones(candidate') :> [num |-> num', transition |-> trans']) @@ seen
               ELSE seen
    /\ UNCHANGED <<states, pc, tapeVars, runVars, genVars>>

\* the loop ends and sigma returns champion_ones
SigmaReturn ==
    /\ pc = "sigma"
    /\ EnumExhausted
    /\ pc' = "done"
    /\ UNCHANGED <<enumVars, sigmaVars, tapeVars, runVars, genVars>>

NextSigma == SigmaIter \/ SigmaReturn

SpecSigma == InitSigma /\ [][NextSigma]_vars

MaxOf(S) == CHOOSE x \in S : \A y \in S : y <= x

(* C2: sigma(1) returns 1 and sigma(2) returns 4, with the step budget of
   108 that sigma passes to run. *)
C2_Sigma ==
    pc = "done" =>
        /\ states = 1 => champion_ones = 1
        /\ states = 2 => champion_ones = 4

\* sigma(2) has returned, its champion being a halting two-state machine with four ones
C2_Witness ==
    /\ pc = "done" /\ states = 2
    /\ champion.halts = "True" /\ Ones(champion) = 4
    /\ num = 20736

(* C4: at every point of sigma's loop champion_ones is the maximum of 0 and
   the ones() of the halting candidates examined so far; the champion is the
   first candidate in enumeration order that reached that score (the initial
   empty machine while the score is 0), and a candidate that exhausted the
   budget is never the champion. *)
C4_Champion ==
    pc \in {"sigma", "done"} =>
        /\ champion_ones = MaxOf({0} \cup DOMAIN seen)
        /\ champion_ones = Ones(champion)
        /\ champion.halts /= "False"
        /\ champion_ones = 0 => champion = BusyBeaver(<<>>)
        /\ champion_ones > 0 =>
             /\ champion.halts = "True"
             /\ champion.transition = seen[champion_ones].transition
        /\ (num >= 1 /\ candidate.halts = "False") => champion /= candidate

\* a halting candidate tied with the champion found earlier, and the earlier one was kept
C4_Witness ==
    /\ pc = "sigma" /\ num >= 2
    /\ candidate.halts = "True"
    /\ Ones(candidate) = champion_ones
    /\ champion_ones > 0
    /\ seen[champion_ones].num < num
    /\ champion.transition /= candidate.transition

----------------------------------------------------------------------------
(* class Generator *)

\* Generator.popcount: bin(n).count("1")
RECURSIVE popcount(_)
popcount(n) == IF n = 0 THEN 0 ELSE (n % 2) + popcount(n \div 2)

\* Generator.champion: best = 0, then best = max(best, popcount(tape)) over
\* self.results[lo..hi]; the range is split in two halves, each folded from 0,
\* to keep the evaluation shallow
RECURSIVE BestOf(_, _, _)
BestOf(results, lo, hi) ==
    IF lo > hi THEN 0
    ELSE IF lo = hi THEN Max(0, popcount(results[lo][3]))
    ELSE Max(BestOf(results, lo, (lo + hi) \div 2),
             BestOf(results, ((lo + hi) \div 2) + 1, hi))

\* Generator.champion
GenChampion(results) == BestOf(results, 1, Len(results))

\* Generator.count
Count(g) == Len(g.results)

\* the Generator of a process that is not running
NoGen == [states |-> 0, maxsteps |-> 0, results |-> <<>>]

\* A file: data is what was handed to f.write (the compressed pickle, an
\* opaque blob), written is how much of it reached the file
NoFile == [exists |-> FALSE, data |-> <<>>, written |-> "empty"]

\* bz2.compress(pickle.dumps(self))
Pickle(g) == <<g.states, g.maxsteps, g.results>>

\* pickle.loads(bz2.decompress(data))
Unpickle(data) == [states |-> data[1], maxsteps |-> data[2], results |-> data[3]]

Complete(f) == f.exists /\ f.data /= <<>> /\ f.written = "complete"

\* mutant: a checkpoint that cannot be read is treated as no checkpoint
LoadOrFresh(f) ==
    IF Complete(f) THEN [ok |-> TRUE, g |-> Unpickle(f.data)]
    ELSE [ok |-> TRUE, g |-> NoGen]

\* Generator.load: ok is FALSE when decompressing or unpickling raises
Load(f) ==
    IF Complete(f) THEN [ok |-> TRUE, g |-> Unpickle(f.data)]
    ELSE [ok |-> FALSE, g |-> NoGen]

\* mutant: the snapshot is written under the checkpoint's own name
TmpIsFilename == "main"

\* tmp = "%s.tmp.%d" % (self.filename, os.getpid()), against self.filename ("main")
Tmp == "tmp"

\* os.rename(tmp, self.filename)
Rename(d, from, to) ==
    IF from = to THEN d
    ELSE [[d EXCEPT ![to] = d[from]] EXCEPT ![from] = NoFile]

\* if no < self.count
Skip(no, count) == no < count

\* mutant: a skipped table ends the loop
AfterSkipBreak == "break"

\* the continue of the skipping branch
AfterSkip == "continue"

\* the tuple appended to self.results
Result(cand) == <<cand.halts, cand.tape.shifts, CodedOnes(cand)>>

\* the part of the loop body of Generator.run that touches self.results
LoopBody(results, no, transition, steps) ==
    IF Skip(no, Len(results)) THEN results
    ELSE Append(results, Result(RunCandidate(transition, 1 + steps)))

----------------------------------------------------------------------------
(* SpecGen: Generator(states, maxsteps, filename).run(save_every), the
   process dying at any point and being started again *)

InitGen ==
    /\ states \in GenStates
    /\ maxsteps \in 0..MaxSteps
    /\ InitEnumVars
    /\ gen = NoGen
    /\ made = 0
    /\ save_every = 1
    /\ disk = [main |-> NoFile, tmp |-> NoFile]
    /\ hist = [loaded |-> 0, first |-> 0, simulated |-> 0,
               old |-> NoFile, new |-> NoFile]
    /\ pc = "off"
    /\ tapeIdle /\ runIdle /\ sigmaIdle

\* A process starts: Generator.__init__ and the head of run.  The temporary
\* file of an earlier process carries that process's pid and is out of reach.
\* An exception of Generator.load leaves __init__ and generate() and ends the
\* process ("failed").
GenStart ==
    /\ pc \in {"off", "done", "failed"}
    /\ LET r == Load(disk.main)
       IN IF ~disk.main.exists
          THEN /\ gen' = [states |-> states, maxsteps |-> maxsteps, results |-> <<>>]
               /\ pc' = "loop"
          ELSE IF r.ok THEN gen' = r.g /\ pc' = "loop"
          ELSE gen' = NoGen /\ pc' = "failed"
    /\ \E se \in 1..MaxSaveEvery : save_every' = se
    /\ made' = 0
    /\ it' = Product(2 * states)
    /\ num' = 0
    /\ trans' = <<>>
    /\ disk' = [disk EXCEPT !.tmp = IF Tmp = "tmp" THEN NoFile ELSE @]
    /\ hist' = [hist EXCEPT !.loaded = Count(gen'), !.first = 0, !.simulated = 0]
    /\ UNCHANGED <<states, maxsteps, tapeVars, runVars, sigmaVars>>

\* one iteration of the loop of Generator.run, up to the call of _save
GenIter ==
    /\ pc = "loop"
    /\ EnumAdvance
    /\ LET skipped == Skip(num', Count(gen))
           results == LoopBody(gen.results, num', trans', gen.maxsteps)
       IN /\ gen' = [gen EXCEPT !.results = results]
          /\ made' = IF skipped THEN made ELSE made + 1
          /\ pc' = IF skipped
                   THEN IF AfterSkip = "continue" THEN "loop" ELSE "after_loop"
                   ELSE IF (made + 1) % save_every = 0 THEN "save_open" ELSE "loop"
          /\ hist' = IF skipped THEN hist
                     ELSE [hist EXCEPT !.simulated = num',
                                       !.first = IF @ = 0 THEN num' ELSE @]
    /\ UNCHANGED <<states, maxsteps, save_every, disk, tapeVars, runVars, sigmaVars>>

\* the generator is exhausted and the loop ends
GenLoopEnd ==
    /\ pc = "loop"
    /\ EnumExhausted
    /\ it' = ProductNext(it, Len(enum_instructions(states)))
    /\ pc' = "after_loop"
    /\ UNCHANGED <<states, num, trans, genVars, tapeVars, runVars, sigmaVars>>

\* if made > 0: self._save()
GenAfterLoop ==
    /\ pc = "after_loop"
    /\ pc' = IF made > 0 THEN "save_final" ELSE "done"
    /\ UNCHANGED <<enumVars, genVars, tapeVars, runVars, sigmaVars>>

\* _save: open(tmp, "wb") creates or truncates the temporary file
SaveOpen ==
    /\ pc \in {"save_open", "save_final"}
    /\ disk' = [disk EXCEPT ![Tmp] = [exists |-> TRUE, data |-> <<>>, written |-> "empty"]]
    /\ hist' = [hist EXCEPT !.old = disk.main,
                            !.new = [exists |-> TRUE, data |-> Pickle(gen),
                                     written |-> "complete"]]
    /\ pc' = IF pc = "save_open" THEN "save_write" ELSE "save_write_final"
    /\ UNCHANGED <<enumVars, gen, maxsteps, made, save_every, tapeVars, runVars, sigmaVars>>

\* _save: f.write(data) and the close at the end of the with block
SaveWrite ==
    /\ pc \in {"save_write", "save_write_final"}
    /\ disk' = [disk EXCEPT ![Tmp] = [exists |-> TRUE, data |-> Pickle(gen),
                                      written |-> "complete"]]
    /\ pc' = IF pc = "save_write" THEN "save_rename" ELSE "save_rename_final"
    /\ UNCHANGED <<enumVars, gen, maxsteps, made, save_every, hist, tapeVars, runVars, sigmaVars>>

\* _save: os.rename(tmp, self.filename), then back to the loop or out of run
SaveRename ==
    /\ pc \in {"save_rename", "save_rename_final"}
    /\ disk' = Rename(disk, Tmp, "main")
    /\ pc' = IF pc = "save_rename" THEN "loop" ELSE "done"
    /\ UNCHANGED <<enumVars, gen, maxsteps, made, save_every, hist, tapeVars, runVars, sigmaVars>>

\* what the death of the process leaves behind
Dead ==
    /\ pc' = "off"
    /\ gen' = NoGen
    /\ made' = 0
    /\ it' = Product(2 * states)
    /\ num' = 0
    /\ trans' = <<>>
    /\ hist' = [hist EXCEPT !.loaded = 0, !.first = 0, !.simulated = 0]
    /\ UNCHANGED <<states, maxsteps, save_every, tapeVars, runVars, sigmaVars>>

\* the process is killed or interrupted between two steps
Die ==
    /\ pc \notin {"off", "done", "failed"}
    /\ Dead
    /\ UNCHANGED disk

\* the process is killed, or the write fails, part of the way through f.write
DieWriting ==
    /\ pc \in {"save_write", "save_write_final"}
    /\ Dead
    /\ disk' = [disk EXCEPT ![Tmp] = [exists |-> TRUE, data |-> Pickle(gen),
                                      written |-> "partial"]]

NextGen ==
    \/ GenStart \/ GenIter \/ GenLoopEnd \/ GenAfterLoop
    \/ SaveOpen \/ SaveWrite \/ SaveRename
    \/ Die \/ DieWriting

SpecGen == InitGen /\ [][NextGen]_vars

\* a Generator object is live: the process runs or has returned from run
Live == pc \in {"loop", "after_loop", "save_open", "save_write", "save_rename",
                "save_final", "save_write_final", "save_rename_final", "done"}

\* the scores of the recorded candidates that were classified as halting
HaltingScores(results) ==
    {popcount(results[i][3]) : i \in {j \in 1..Len(results) : results[j][1] = "True"}}

(* C3: champion() over the accumulated results is the highest ones() among
   the recorded candidates classified as halting, 0 if there is none; a
   candidate recorded as not halting never contributes. *)
C3_ChampionOfHalting ==
    Live => GenChampion(gen.results) = MaxOf({0} \cup HaltingScores(gen.results))

\* A Generator run from an empty result list with no interruption: up to k
\* iterations of the loop of Generator.run from the loop state st, in order,
\* until the enumeration is exhausted (split in two halves to keep the
\* evaluation shallow)
RECURSIVE RunLoop(_, _, _, _)
RunLoop(st, k, n, steps) ==
    IF st.exhausted \/ k <= 0 THEN st
    ELSE IF k = 1
    THEN LET q == ProductNext(st.p, Len(enum_instructions(n)))
         IN IF q.state = "exhausted" THEN [st EXCEPT !.exhausted = TRUE]
            ELSE [results |-> LoopBody(st.results, st.no + 1,
                                       BuildTrans(ProductTuple(q, n), n), steps),
                  p |-> q, no |-> st.no + 1, exhausted |-> FALSE]
    ELSE RunLoop(RunLoop(st, k \div 2, n, steps), k - (k \div 2), n, steps)

Uninterrupted(n, steps) ==
    RunLoop([results |-> <<>>, p |-> Product(2 * n), no |-> 0, exhausted |-> FALSE],
            binary_machines(n) + 1, n, steps)

(* C5: a Generator that resumes from a checkpoint, whatever number k of
   results the checkpoint holds, and runs to completion reports the same
   champion() as a Generator that runs the whole enumeration without
   interruption from an empty result list. *)
C5_ResumeSameChampion ==
    pc = "done" =>
        /\ Uninterrupted(states, maxsteps).exhausted
        /\ GenChampion(gen.results) = GenChampion(Uninterrupted(states, maxsteps).results)

\* a run that resumed from a checkpoint of some but not all results has completed
C5_Witness ==
    /\ pc = "done" /\ states = 1
    /\ hist.loaded > 1 /\ hist.loaded < 16
    /\ hist.simulated = binary_machines(states)
    /\ GenChampion(gen.results) > 0

(* C6: a run that starts with k saved results skips exactly the first k
   tables, so the first table it simulates has ordinal k+1; the result of the
   table with ordinal no is stored at results[no-1] (0-based), so after it is
   appended there are exactly no results; and when the enumeration is
   exhausted len(results) = (4(n+1))^(2n). *)
C6_ResumeExactlyOnce ==
    Live =>
        /\ hist.first > 0 => hist.first = hist.loaded + 1
        /\ hist.simulated > 0 => Count(gen) = hist.simulated
        /\ pc = "done" => Count(gen) = binary_machines(states)

\* a checkpoint file that bz2.decompress or pickle.loads cannot read: an empty
\* file, or a snapshot cut short
CorruptFiles ==
    {[exists |-> TRUE, data |-> <<>>, written |-> "empty"]} \cup
    {[exists |-> TRUE, data |-> <<n, st, <<>>>>, written |-> "partial"] :
        n \in GenStates, st \in 0..MaxSteps}

Corrupt(f) == f.exists /\ ~Complete(f)

\* as InitGen, the checkpoint file being absent or unreadable
InitGenCorrupt ==
    /\ states \in GenStates
    /\ maxsteps \in 0..MaxSteps
    /\ InitEnumVars
    /\ gen = NoGen
    /\ made = 0
    /\ save_every = 1
    /\ \E f \in {NoFile} \cup CorruptFiles : disk = [main |-> f, tmp |-> NoFile]
    /\ hist = [loaded |-> 0, first |-> 0, simulated |-> 0,
               old |-> NoFile, new |-> NoFile]
    /\ pc = "off"
    /\ tapeIdle /\ runIdle /\ sigmaIdle

SpecGenCorrupt == InitGenCorrupt /\ [][NextGen]_vars

(* C16: if the checkpoint file exists but cannot be decompressed or
   unpickled, constructing the Generator fails with an error: the process
   never holds a Generator with an empty result list, never simulates a
   candidate, and never overwrites the checkpoint file. *)
C16_CorruptRefused ==
    [][Corrupt(disk.main) =>
          /\ pc' = "failed"
          /\ gen' = NoGen
          /\ num' = 0 /\ made' = 0 /\ hist'.simulated = 0
          /\ disk'.main = disk.main
          /\ ~disk'.tmp.exists]_vars

\* a start on a checkpoint that was cut short has failed
C16_Witness ==
    /\ pc = "failed"
    /\ disk.main.exists /\ disk.main.written = "partial"
    /\ gen = NoGen /\ num = 0

(* C19: for every candidate that Generator.run builds from an enumerated
   table and runs from a blank tape, coded_ones() is defined, also for the
   empty table of n = 0, and the value recorded in results round-trips the
   score: popcount(coded_ones()) = ones(), whether or not the final tape has
   leading or trailing zero cells. *)
C19_CodedOnesRoundTrip ==
    (Live /\ hist.simulated > 0 /\ hist.simulated = num) =>
        LET c == RunCandidate(trans, 1 + gen.maxsteps)
            r == gen.results[Len(gen.results)]
        IN /\ Values(c.tape) /= <<>>
           /\ r[3] /= ValueError /\ r[3] >= 0
           /\ r[3] = CodedOnes(c)
           /\ popcount(r[3]) = Ones(c)
           /\ Ones(c) = Cardinality({p \in DOMAIN c.tape.data : c.tape.data[p] = 1})

\* the last recorded candidate left a zero cell to the left of a one
C19_Witness ==
    /\ pc = "loop" /\ states = 1 /\ hist.simulated = num /\ num > 0
    /\ Values(RunCandidate(trans, 1 + gen.maxsteps).tape) = <<0, 1>>
    /\ gen.results[Len(gen.results)][3] = 1

(* C7: whenever the process may die - before, during or after _save - the
   checkpoint file is absent or holds a complete snapshot, and it is the file
   that was there when the latest _save began or the complete snapshot that
   _save was writing. *)
C7_AtomicSave ==
    pc \notin {"enum", "sigma", "tape"} =>
        /\ disk.main.exists => Complete(disk.main)
        /\ disk.main \in {hist.old, hist.new}

\* the process died part of the way through writing a second snapshot, the first one intact
C7_Witness ==
    /\ pc = "off"
    /\ disk.tmp.exists /\ disk.tmp.written = "partial"
    /\ Complete(disk.main)
    /\ disk.main = hist.old
    /\ disk.main /= hist.new
    /\ disk.tmp.data = hist.new.data

====
